---------------------------- MODULE Spec2Model ----------------------------
(***************************************************************************)
(* Model of the two caching HTTP servers of Http-Server-Demo:              *)
(*   - server_cached.c       (Deque of reference-counted Nodes)            *)
(*   - server_cached_naive.c (PriorityQueue.c, one coarse lock)            *)
(* One worker thread serves one connection; the accept loop of main()      *)
(* starts workers.  The variable `server` records which of the two         *)
(* programs is running.                                                    *)
(***************************************************************************)
EXTENDS Integers, Sequences, FiniteSets, TLC

-----------------------------------------------------------------------------
(* Bounds of the model *)

\* worker threads alive at the same time
NWorkers == 2
\* calls of malloc(sizeof(HttpResponse)) that succeed before the heap is exhausted
MaxAllocs == 6
\* calls of malloc(sizeof(Node)) that succeed before the heap is exhausted
MaxNodes == 6
\* distinct file names clients ask for
NFiles == 5
\* largest value CLOCK_THREAD_CPUTIME_ID yields in a fresh worker (ns)
MaxCpu == 1
\* last second CLOCK_REALTIME reaches in one run (it starts at 1)
MaxClock == 2
\* HttpResponse structs the heap has room for in the runs checked for liveness
MaxAllocsFair == 2
\* largest CPU time (ns) of a thread that calls enqueue, in the call sequences
\* of PriorityQueue.c
MaxCpuSeq == 3
\* sizeof(response), the size of one fread of the miss path, scaled down
ChunkSize == 2

(* Program constants *)

MAX_CACHE_COUNT == 5
MAX == 5

NULL == 0

Workers == 1..NWorkers
Files == 1..NFiles
\* a name clients ask for that fopen cannot open
NoSuchFile == NFiles + 1

\* contents of file f on disk: one to three bytes, distinct per file
FileBytes(f) == [i \in 1..(1 + (f % 3)) |-> 10 * f + i]

Min(a, b) == IF a < b THEN a ELSE b

-----------------------------------------------------------------------------
VARIABLES
    server,             \* "rc" (server_cached.c) or "naive" (server_cached_naive.c)
    nseen,              \* number of distinct file names requested so far
    pc,                 \* pc[w]: position of worker w in handle_client_connection
    filename,           \* filename[w]: the requested file
    existing_node,      \* existing_node[w]: Node* set by search (rc)
    existing_response,  \* existing_response[w]: HttpResponse* returned by search
    new,                \* new[w]: the HttpResponse built on the miss path (*new)
    total_sent,         \* total_sent[w] in send_existing_http_response
    bytes_read,         \* bytes_read[w]: what the last fread of the miss path returned
    total_read,         \* total_read[w] of the miss path
    sent,               \* sent[w] of the miss path
    body,               \* body[w]: the bytes the client got as body on the miss path
    inserted,           \* inserted[w]: where new[w] points once enqueue has stored it
    stats_proc,         \* value of the semaphore of the process server
    stdio_buf,          \* stdio_buf[w]: what child w has buffered for stats_proc_txt
    mutex,              \* owner of the log-file mutex, NULL when free
    deck_mutex,         \* owner of deck_mutex, NULL when free
    pq_mutex,           \* owner of pq_mutex, NULL when free
    resp,               \* heap of the HttpResponse structs passed to enqueue, by address
    node,               \* heap of Node structs, by address
    deck,               \* the Deque: head, tail, size
    pq,                 \* the PriorityQueue: items, size
    now,                \* CLOCK_REALTIME, seconds: what the next reading returns
    heap_nodes,         \* calls of malloc(sizeof(Node)) that succeed in this run
    heap_resps,         \* HttpResponse structs the heap has room for in this run
    enq                 \* history: enq[a] = what was passed to enqueue with pointer a

vars == <<server, nseen, pc, filename, existing_node, existing_response,
          new, total_sent, bytes_read, total_read, sent, body,
          inserted, stats_proc, stdio_buf, mutex, deck_mutex, pq_mutex, resp, node, deck, pq,
          now, heap_nodes, heap_resps, enq>>

\* the worker's local variables other than its position
\* the locals of the read and send loop of the miss path
missVars == <<bytes_read, total_read, sent, body>>
locals == <<filename, existing_node, existing_response, new, total_sent, missVars,
           inserted>>
\* the state of the caches
deckVars == <<node, deck>>
\* what malloc will grant
heap == <<heap_nodes, heap_resps>>
\* the state of the process server
procVars == <<stats_proc, stdio_buf>>
envVars == <<server, nseen, now, heap, procVars>>

\* no HttpResponse allocated
NoResp == [filename |-> NULL]

\* the struct r at its address on the heap
Stored(r) == [filename |-> r.filename, response |-> r.response,
              filesize |-> r.filesize, access_time |-> r.access_time,
              freed |-> FALSE]

\* the struct r at address a of the heap of the naive server; buf names its
\* two buffers, filename and response, which the struct holds by pointer
StoredAt(r, a) == [filename |-> r.filename, response |-> r.response,
                   filesize |-> r.filesize, access_time |-> r.access_time,
                   freed |-> FALSE, buf |-> a]

\* HttpResponse structs malloc has handed out and that were not lost with their thread
Allocated == Len(resp) + Cardinality({w \in Workers : new[w] # NoResp})

\* struct timespec
Timespec(s, ns) == [tv_sec |-> s, tv_nsec |-> ns]

-----------------------------------------------------------------------------
(* The Deque of server_cached.c *)

\* walk without the strcmp: the first node is taken for a match
walk_any(nd, rs, curr, fname) == curr

RECURSIVE walk(_, _, _, _)
\* the for loop of search: first node from curr whose data->filename matches
walk(nd, rs, curr, fname) ==
    IF curr = NULL THEN NULL
    ELSE IF rs[nd[curr].data].filename = fname THEN curr
    ELSE walk(nd, rs, nd[curr].next, fname)

\* search without curr->reference_count++
search_deck_nopin(dk, nd, rs, fname) ==
    LET found == IF dk.size = 0 THEN NULL ELSE walk(nd, rs, dk.head, fname)
    IN  IF found = NULL
        THEN [ret |-> NULL, existing_node |-> NULL, node |-> nd]
        ELSE [ret |-> nd[found].data, existing_node |-> found, node |-> nd]

\* search(deck, filename, &existing_node)
search_deck(dk, nd, rs, fname) ==
    LET found == IF dk.size = 0 THEN NULL ELSE walk(nd, rs, dk.head, fname)
    IN  IF found = NULL
        THEN [ret |-> NULL, existing_node |-> NULL, node |-> nd]
        ELSE [ret |-> nd[found].data, existing_node |-> found,
              node |-> [nd EXCEPT ![found].reference_count = @ + 1]]

\* put_down without the test of node->valid
put_down_novalid(nd, rs, n) ==
    LET cnt == nd[n].reference_count - 1
        nd1 == [nd EXCEPT ![n].reference_count = cnt]
    IN  IF cnt = 0
        THEN [node |-> [nd1 EXCEPT ![n].freed = TRUE],
              resp |-> [rs EXCEPT ![nd[n].data].freed = TRUE]]
        ELSE [node |-> nd1, resp |-> rs]

\* put_down(node): the new node heap and HttpResponse heap
put_down(nd, rs, n) ==
    LET cnt == nd[n].reference_count - 1
        nd1 == [nd EXCEPT ![n].reference_count = cnt]
    IN  IF cnt = 0 /\ nd[n].valid = 0
        THEN [node |-> [nd1 EXCEPT ![n].freed = TRUE],
              resp |-> [rs EXCEPT ![nd[n].data].freed = TRUE]]
        ELSE [node |-> nd1, resp |-> rs]

\* remove_tail that frees the old tail at once, pinned or not
remove_tail_free(dk, nd) ==
    LET old == dk.tail
        newtail == nd[old].prev
    IN  [deck |-> [dk EXCEPT !.tail = newtail],
         node |-> [nd EXCEPT ![newtail].next = NULL, ![old].valid = 0,
                             ![old].freed = TRUE]]

\* remove_tail that moves deck->tail but leaves the old tail linked
remove_tail_linked(dk, nd) ==
    LET old == dk.tail
        newtail == nd[old].prev
    IN  [deck |-> [dk EXCEPT !.tail = newtail],
         node |-> [nd EXCEPT ![old].valid = 0]]

\* remove_tail(deck)
remove_tail(dk, nd) ==
    LET old == dk.tail
        newtail == nd[old].prev
    IN  [deck |-> [dk EXCEPT !.tail = newtail],
         node |-> [nd EXCEPT ![newtail].next = NULL, ![old].valid = 0]]

\* enqueue without the capacity branch: every node is linked at the head
enqueue_deck_noevict(dk, nd, newresp, ok) ==
    LET n == Len(nd) + 1
        fresh == [data |-> newresp, prev |-> NULL, next |-> dk.head,
                  valid |-> 1, reference_count |-> 0, freed |-> FALSE]
        nd1 == Append(nd, fresh)
    IN  [deck |-> [head |-> n, tail |-> IF dk.size = 0 THEN n ELSE dk.tail,
                   size |-> dk.size + 1],
         node |-> IF dk.size = 0 THEN nd1 ELSE [nd1 EXCEPT ![dk.head].prev = n]]

\* enqueue that removes the tail of a full list before it looks at what
\* malloc returned
enqueue_deck_late(dk, nd, newresp, ok) ==
    LET n == Len(nd) + 1
        fresh == [data |-> newresp, prev |-> NULL, next |-> NULL,
                  valid |-> 1, reference_count |-> 0, freed |-> FALSE]
    IN  IF dk.size = MAX_CACHE_COUNT
        THEN LET r == remove_tail(dk, nd)
                 nd1 == Append(r.node, [fresh EXCEPT !.next = r.deck.head])
             IN  IF ~ok THEN r
                 ELSE [deck |-> [r.deck EXCEPT !.head = n],
                       node |-> [nd1 EXCEPT ![r.deck.head].prev = n]]
        ELSE IF ~ok THEN [deck |-> dk, node |-> nd]
        ELSE IF dk.size = 0
        THEN [deck |-> [head |-> n, tail |-> n, size |-> dk.size + 1],
              node |-> Append(nd, fresh)]
        ELSE LET nd1 == Append(nd, [fresh EXCEPT !.next = dk.head])
             IN  [deck |-> [dk EXCEPT !.head = n, !.size = @ + 1],
                  node |-> [nd1 EXCEPT ![dk.head].prev = n]]

\* enqueue whose last branch leaves out deck->head->prev = newNode
enqueue_deck_noprev(dk, nd, newresp, ok) ==
    IF ~ok THEN [deck |-> dk, node |-> nd]
    ELSE
    LET n == Len(nd) + 1
        fresh == [data |-> newresp, prev |-> NULL, next |-> NULL,
                  valid |-> 1, reference_count |-> 0, freed |-> FALSE]
    IN  IF dk.size = MAX_CACHE_COUNT
        THEN LET r == remove_tail(dk, nd)
                 nd1 == Append(r.node, [fresh EXCEPT !.next = r.deck.head])
             IN  [deck |-> [r.deck EXCEPT !.head = n],
                  node |-> [nd1 EXCEPT ![r.deck.head].prev = n]]
        ELSE IF dk.size = 0
        THEN [deck |-> [head |-> n, tail |-> n, size |-> dk.size + 1],
              node |-> Append(nd, fresh)]
        ELSE [deck |-> [dk EXCEPT !.head = n, !.size = @ + 1],
              node |-> Append(nd, [fresh EXCEPT !.next = dk.head])]

\* enqueue(deck, new); newresp is the address of *new, ok the outcome of
\* malloc(sizeof(Node))
enqueue_deck(dk, nd, newresp, ok) ==
    IF ~ok THEN [deck |-> dk, node |-> nd]
    ELSE
    LET n == Len(nd) + 1
        fresh == [data |-> newresp, prev |-> NULL, next |-> NULL,
                  valid |-> 1, reference_count |-> 0, freed |-> FALSE]
    IN  IF dk.size = MAX_CACHE_COUNT
        THEN LET r == remove_tail(dk, nd)
                 nd1 == Append(r.node, [fresh EXCEPT !.next = r.deck.head])
             IN  [deck |-> [r.deck EXCEPT !.head = n],
                  node |-> [nd1 EXCEPT ![r.deck.head].prev = n]]
        ELSE IF dk.size = 0
        THEN [deck |-> [head |-> n, tail |-> n, size |-> dk.size + 1],
              node |-> Append(nd, fresh)]
        ELSE LET nd1 == Append(nd, [fresh EXCEPT !.next = dk.head])
             IN  [deck |-> [dk EXCEPT !.head = n, !.size = @ + 1],
                  node |-> [nd1 EXCEPT ![dk.head].prev = n]]

-----------------------------------------------------------------------------
(* PriorityQueue.c *)

\* a swap that exchanges filename, filesize and access_time and leaves the
\* response pointers where they are
swap_shallow(rs, a, b) ==
    [rs EXCEPT ![a] = [rs[b] EXCEPT !.response = rs[a].response, !.buf = rs[a].buf],
               ![b] = [rs[a] EXCEPT !.response = rs[b].response, !.buf = rs[b].buf]]

\* swap(a, b): the two structs exchange their contents, the addresses stay
swap(rs, a, b) ==
    [rs EXCEPT ![a] = rs[b], ![b] = rs[a]]

\* compare_timespec(time1, time2)
compare_timespec(time1, time2) ==
    IF time1.tv_sec > time2.tv_sec THEN 1
    ELSE IF time1.tv_sec < time2.tv_sec THEN -1
    ELSE IF time1.tv_nsec > time2.tv_nsec THEN 1
    ELSE IF time1.tv_nsec < time2.tv_nsec THEN -1
    ELSE 0

\* heapifyUp without the recursive call: the entry climbs one level at most
heapifyUp_once(q, rs, index) ==
    LET parent == (index - 1) \div 2
    IN  IF index # 0
           /\ compare_timespec(rs[q.items[parent]].access_time,
                               rs[q.items[index]].access_time) = -1
        THEN swap(rs, q.items[parent], q.items[index])
        ELSE rs

RECURSIVE heapifyUp(_, _, _)
\* heapifyUp(pq, index): the HttpResponse heap after the sift
heapifyUp(q, rs, index) ==
    LET parent == (index - 1) \div 2
    IN  IF index # 0
           /\ compare_timespec(rs[q.items[parent]].access_time,
                               rs[q.items[index]].access_time) = -1
        THEN heapifyUp(q, swap(rs, q.items[parent], q.items[index]), parent)
        ELSE rs

RECURSIVE scan_pq(_, _, _, _)
\* the for loop of search: index of the first slot from i whose filename matches
scan_pq(q, rs, i, target) ==
    IF i >= q.size THEN -1
    ELSE IF rs[q.items[i]].filename = target THEN i
    ELSE scan_pq(q, rs, i + 1, target)

\* search(pq, target); t is the reading of CLOCK_REALTIME
search_pq(q, rs, target, t) ==
    LET i == scan_pq(q, rs, 0, target)
    IN  IF i = -1 THEN [ret |-> NULL, resp |-> rs]
        ELSE [ret |-> q.items[i],
              resp |-> heapifyUp(q, [rs EXCEPT ![q.items[i]].access_time = t], i)]

\* the eviction loop cut down to its first iteration: only the last slot is read
scan_min_last(q, rs, i, amt, min, min_index) ==
    IF compare_timespec(rs[q.items[q.size - 1]].access_time, min) = -1
    THEN q.size - 1
    ELSE min_index

RECURSIVE scan_min(_, _, _, _, _, _)
\* the eviction loop of enqueue: min_index after iterations i..amt-1
scan_min(q, rs, i, amt, min, min_index) ==
    IF i >= amt THEN min_index
    ELSE LET k == q.size - i - 1
         IN  IF compare_timespec(rs[q.items[k]].access_time, min) = -1
             THEN scan_min(q, rs, i + 1, amt, rs[q.items[k]].access_time, k)
             ELSE scan_min(q, rs, i + 1, amt, min, min_index)

\* tv_sec = tv_nsec = LONG_MAX: later than every time the model produces
TimeMax == [tv_sec |-> MaxClock + 1, tv_nsec |-> MaxCpu + MaxCpuSeq + 1]

\* enqueue that replaces a stored entry with the same filename, when there is
\* one, instead of adding a second entry
enqueue_pq_dedup(q, rs, value) ==
    LET i == scan_pq(q, rs, 0, rs[value].filename)
    IN  IF i # -1
        THEN LET q1 == [q EXCEPT !.items[i] = value]
             IN  [pq |-> q1,
                  resp |-> heapifyUp(q1, [rs EXCEPT ![q.items[i]].freed = TRUE], i)]
        ELSE IF q.size = MAX
        THEN LET amt == (q.size \div 2) + 1
                 min_index == scan_min(q, rs, 0, amt, TimeMax, MAX - 1)
                 old == q.items[min_index]
                 q1 == [q EXCEPT !.items[min_index] = value]
             IN  [pq |-> q1,
                  resp |-> heapifyUp(q1, [rs EXCEPT ![old].freed = TRUE], min_index)]
        ELSE LET q1 == [items |-> [q.items EXCEPT ![q.size] = value],
                        size |-> q.size + 1]
             IN  [pq |-> q1, resp |-> heapifyUp(q1, rs, q1.size - 1)]

\* enqueue(pq, value): value is the address of the new struct, already in rs
enqueue_pq(q, rs, value) ==
    IF q.size = MAX
    THEN LET amt == (q.size \div 2) + 1
             min_index == scan_min(q, rs, 0, amt, TimeMax, MAX - 1)
             old == q.items[min_index]
             q1 == [q EXCEPT !.items[min_index] = value]
         IN  [pq |-> q1,
              resp |-> heapifyUp(q1, [rs EXCEPT ![old].freed = TRUE], min_index)]
    ELSE LET q1 == [items |-> [q.items EXCEPT ![q.size] = value],
                    size |-> q.size + 1]
         IN  [pq |-> q1, resp |-> heapifyUp(q1, rs, q1.size - 1)]

\* the slot indices pq->size - i - 1 with an off-by-one: pq->size - i
scan_reads_off(q) ==
    {q.size - i : i \in 0..((q.size \div 2) + 1 - 1)}

\* the slot indices the eviction loop of enqueue reads: pq->size - i - 1 for
\* i = 0 .. amt - 1
scan_reads(q) ==
    {q.size - i - 1 : i \in 0..((q.size \div 2) + 1 - 1)}

RECURSIVE heapify_touched(_, _, _)
\* the slot indices heapifyUp(pq, index) reads or swaps
heapify_touched(q, rs, index) ==
    LET parent == (index - 1) \div 2
    IN  IF index = 0 THEN {}
        ELSE {parent, index} \cup
             (IF compare_timespec(rs[q.items[parent]].access_time,
                                  rs[q.items[index]].access_time) = -1
              THEN heapify_touched(q, swap(rs, q.items[parent], q.items[index]),
                                   parent)
              ELSE {})

\* the slot indices search(pq, target) reads, with those of its heapifyUp
search_touched(q, rs, target, t) ==
    LET i == scan_pq(q, rs, 0, target)
    IN  IF i = -1 THEN 0..(q.size - 1)
        ELSE (0..i) \cup
             heapify_touched(q, [rs EXCEPT ![q.items[i]].access_time = t], i)

\* the slot indices enqueue(pq, value) reads in its eviction loop (scan), the
\* slot it stores value in (store) and the slots of its heapifyUp (sift), with
\* pq->size as it is when heapifyUp is called (size)
enqueue_touched(q, rs, value) ==
    IF q.size = MAX
    THEN LET min_index == scan_min(q, rs, 0, (q.size \div 2) + 1, TimeMax, MAX - 1)
             q1 == [q EXCEPT !.items[min_index] = value]
         IN  [scan |-> scan_reads(q), store |-> min_index,
              sift |-> heapify_touched(q1, rs, min_index), size |-> q1.size]
    ELSE LET q1 == [items |-> [q.items EXCEPT ![q.size] = value],
                    size |-> q.size + 1]
         IN  [scan |-> {}, store |-> q.size,
              sift |-> heapify_touched(q1, rs, q1.size - 1), size |-> q1.size]

-----------------------------------------------------------------------------
(* Initial state: main() has set up an empty cache, no worker runs *)

InitCommon ==
    /\ nseen = 0
    /\ pc = [w \in Workers |-> "idle"]
    /\ filename = [w \in Workers |-> NULL]
    /\ existing_node = [w \in Workers |-> NULL]
    /\ existing_response = [w \in Workers |-> NULL]
    /\ new = [w \in Workers |-> NoResp]
    /\ total_sent = [w \in Workers |-> 0]
    /\ bytes_read = [w \in Workers |-> 0]
    /\ total_read = [w \in Workers |-> 0]
    /\ sent = [w \in Workers |-> 0]
    /\ body = [w \in Workers |-> <<>>]
    /\ inserted = [w \in Workers |-> NULL]
    /\ stats_proc = 1
    /\ stdio_buf = [w \in Workers |-> {}]
    /\ mutex = NULL
    /\ deck_mutex = NULL
    /\ pq_mutex = NULL
    /\ resp = <<>>
    /\ node = <<>>
    /\ deck = [head |-> NULL, tail |-> NULL, size |-> 0]
    /\ pq = [items |-> [i \in 0..(MAX - 1) |-> NULL], size |-> 0]
    /\ now = 1
    /\ enq = <<>>

\* a heap with room for MaxNodes nodes and MaxAllocs responses
InitHeap == heap_nodes = MaxNodes /\ heap_resps = MaxAllocs

InitRC == server = "rc" /\ InitHeap /\ InitCommon

InitNaive == server = "naive" /\ InitHeap /\ InitCommon

Init == InitRC \/ InitNaive

-----------------------------------------------------------------------------
(* Steps shared by both handle_client_connection functions *)

\* pthread_exit: the thread's locals are gone
Exit(w) ==
    /\ pc' = [pc EXCEPT ![w] = "idle"]
    /\ filename' = [filename EXCEPT ![w] = NULL]
    /\ existing_node' = [existing_node EXCEPT ![w] = NULL]
    /\ existing_response' = [existing_response EXCEPT ![w] = NULL]
    /\ new' = [new EXCEPT ![w] = NoResp]
    /\ total_sent' = [total_sent EXCEPT ![w] = 0]
    /\ bytes_read' = [bytes_read EXCEPT ![w] = 0]
    /\ total_read' = [total_read EXCEPT ![w] = 0]
    /\ sent' = [sent EXCEPT ![w] = 0]
    /\ body' = [body EXCEPT ![w] = <<>>]
    /\ inserted' = [inserted EXCEPT ![w] = NULL]

Goto(w, label) == pc' = [pc EXCEPT ![w] = label]

\* main(): accept + pthread_create; the worker: recv and sscanf of the request.
\* File names are numbered in the order clients first ask for them.
Accept(w) ==
    /\ server \in {"rc", "naive"}
    /\ pc[w] = "idle"
    /\ \E f \in 1..Min(nseen + 1, NFiles) \cup {NoSuchFile} :
         /\ filename' = [filename EXCEPT ![w] = f]
         /\ nseen' = IF f \in Files /\ f > nseen THEN f ELSE nseen
    /\ Goto(w, "lock_search")
    /\ UNCHANGED <<missVars, inserted,
                   server, now, heap, procVars, existing_node, existing_response, new,
                   total_sent, mutex, deck_mutex, pq_mutex, resp, enq, deckVars, pq>>

\* fopen fails (404), or one of the three mallocs of the miss path returns
\* NULL: the worker exits and what it had allocated is freed again
OpenFails(w) ==
    /\ pc[w] = "fopen"
    /\ filename[w] \notin Files \/ Allocated >= heap_resps
    /\ Exit(w)
    /\ UNCHANGED <<envVars, mutex, deck_mutex, pq_mutex, resp, enq, deckVars, pq>>

\* fopen, the mallocs of the new HttpResponse, its filename, access_time and
\* filesize, the header sends; cpu is the thread's CPU time.  The struct is
\* private to the worker until enqueue; addresses are named in enqueue order.
OpenAndBuild(w) ==
    /\ pc[w] = "fopen"
    /\ filename[w] \in Files
    /\ Allocated < heap_resps
    /\ \E cpu \in 1..MaxCpu :
         new' = [new EXCEPT ![w] = [filename |-> filename[w],
                                    response |-> <<>>,
                                    filesize |-> Len(FileBytes(filename[w])),
                                    access_time |-> Timespec(0, cpu)]]
    /\ Goto(w, "read")
    /\ UNCHANGED <<missVars, inserted,
                   envVars, filename, existing_node, existing_response, total_sent,
                   mutex, deck_mutex, pq_mutex, resp, enq, deckVars, pq>>

\* ReadFile of a worker that takes the log lock before it caches the response
ReadFile_logfirst(w) ==
    /\ pc[w] = "read"
    /\ mutex = NULL
    /\ mutex' = w
    /\ new' = [new EXCEPT ![w].response = FileBytes(filename[w])]
    /\ Goto(w, "lock_enqueue")
    /\ UNCHANGED <<missVars, inserted,
                   envVars, filename, existing_node, existing_response, total_sent,
                   deck_mutex, pq_mutex, resp, enq, deckVars, pq>>

\* the fread loop: the file's bytes land in new->response and are sent
ReadFile(w) ==
    /\ pc[w] = "read"
    /\ new' = [new EXCEPT ![w].response = FileBytes(filename[w])]
    /\ Goto(w, "lock_enqueue")
    /\ UNCHANGED <<missVars, inserted,
                   envVars, filename, existing_node, existing_response, total_sent,
                   mutex, deck_mutex, pq_mutex, resp, enq, deckVars, pq>>

\* what a read of an uninitialised or out-of-bounds byte of the buffer of
\* file f may give
AnyByte(f) == {0} \cup {FileBytes(f)[i] : i \in 1..Len(FileBytes(f))}

\* the values send(connfd, r.response + off, n, 0) may put on the wire when it
\* takes n bytes: the bytes fread has stored, anything beyond them
BufferRead(r, off, n) ==
    {d \in [1..n -> AnyByte(r.filename)] :
        \A i \in 1..n : off + i <= Len(r.response) => d[i] = r.response[off + i]}

\* the loop head of the miss path:
\* bytes_read = fread(new->response + total_read, 1, sizeof(response), f);
\* total_read += bytes_read; then the test of the inner loop
Fread(w) ==
    /\ pc[w] = "read"
    /\ LET file == FileBytes(filename[w])
           n == Min(ChunkSize, Len(file) - total_read[w])
       IN  /\ bytes_read' = [bytes_read EXCEPT ![w] = n]
           /\ total_read' = [total_read EXCEPT ![w] = @ + n]
           /\ new' = [new EXCEPT ![w].response =
                         @ \o SubSeq(file, total_read[w] + 1, total_read[w] + n)]
           /\ Goto(w, IF n = 0 THEN "lock_enqueue"
                      ELSE IF sent[w] < total_read[w] + n THEN "send_miss"
                      ELSE "read")
    /\ UNCHANGED <<inserted, sent, body, envVars, filename, existing_node, existing_response,
                   total_sent, mutex, deck_mutex, pq_mutex, resp, enq, deckVars, pq>>

\* one send of the inner loop from offset off with length len, taking n bytes
SendMiss(w, off, len) ==
    /\ pc[w] = "send_miss"
    /\ \E n \in 1..len : \E d \in BufferRead(new[w], off, n) :
         /\ body' = [body EXCEPT ![w] = @ \o d]
         /\ sent' = [sent EXCEPT ![w] = @ + n]
         /\ Goto(w, IF sent[w] + n < total_read[w] THEN "send_miss" ELSE "read")
    /\ UNCHANGED <<inserted, bytes_read, total_read, envVars, filename, existing_node,
                   existing_response, new, total_sent, mutex, deck_mutex, pq_mutex,
                   resp, enq, deckVars, pq>>

\* server_cached.c: sent += send(connfd, new->response + sent, total_read - sent, 0)
RCSendMiss(w) ==
    /\ server = "rc"
    /\ SendMiss(w, sent[w], total_read[w] - sent[w])

\* server_cached_naive.c:
\* sent += send(connfd, new->response + total_read, bytes_read, 0)
NVSendMiss(w) ==
    /\ server = "naive"
    /\ SendMiss(w, total_read[w], bytes_read[w])

\* pthread_mutex_lock(&mutex) before the statistics line
LockLog(w) ==
    /\ pc[w] \in {"log_lock", "log_hit_lock"}
    /\ mutex = NULL
    /\ mutex' = w
    /\ Goto(w, IF pc[w] = "log_lock" THEN "log" ELSE "log_hit")
    /\ UNCHANGED <<envVars, locals, deck_mutex, pq_mutex, resp, enq, deckVars, pq>>

\* miss path: fprintf, fflush, unlock, fclose, close, pthread_exit
WriteLog(w) ==
    /\ pc[w] = "log"
    /\ mutex = w
    /\ mutex' = NULL
    /\ Exit(w)
    /\ UNCHANGED <<envVars, deck_mutex, pq_mutex, resp, enq, deckVars, pq>>

-----------------------------------------------------------------------------
(* handle_client_connection of server_cached.c *)

\* pthread_mutex_lock(&deck_mutex)
RCLockDeck(w) ==
    /\ server = "rc"
    /\ pc[w] \in {"lock_search", "lock_put_down", "lock_enqueue"}
    /\ deck_mutex = NULL
    /\ deck_mutex' = w
    /\ Goto(w, CASE pc[w] = "lock_search" -> "search"
                 [] pc[w] = "lock_put_down" -> "put_down"
                 [] pc[w] = "lock_enqueue" -> "enqueue")
    /\ UNCHANGED <<envVars, locals, mutex, pq_mutex, resp, enq, deckVars, pq>>

\* RCSearch that keeps deck_mutex on a hit, as the naive server does
RCSearch_keep(w) ==
    /\ server = "rc"
    /\ pc[w] = "search"
    /\ deck_mutex = w
    /\ LET r == search_deck(deck, node, resp, filename[w])
       IN  /\ node' = r.node
           /\ existing_node' = [existing_node EXCEPT ![w] = r.existing_node]
           /\ existing_response' = [existing_response EXCEPT ![w] = r.ret]
           /\ Goto(w, IF r.ret # NULL THEN "send_hit" ELSE "fopen")
           /\ deck_mutex' = IF r.ret # NULL THEN w ELSE NULL
    /\ UNCHANGED <<missVars, inserted,
                   envVars, filename, new, total_sent, mutex, pq_mutex, resp, enq,
                   deck, pq>>

\* search under deck_mutex, unlock, branch on the result
RCSearch(w) ==
    /\ server = "rc"
    /\ pc[w] = "search"
    /\ deck_mutex = w
    /\ LET r == search_deck(deck, node, resp, filename[w])
       IN  /\ node' = r.node
           /\ existing_node' = [existing_node EXCEPT ![w] = r.existing_node]
           /\ existing_response' = [existing_response EXCEPT ![w] = r.ret]
           /\ Goto(w, IF r.ret # NULL THEN "send_hit" ELSE "fopen")
    /\ deck_mutex' = NULL
    /\ UNCHANGED <<missVars, inserted,
                   envVars, filename, new, total_sent, mutex, pq_mutex, resp, enq,
                   deck, pq>>

\* RCSendExisting that sends only while no other worker is sending
RCSendExisting_serial(w) ==
    /\ server = "rc"
    /\ pc[w] = "send_hit"
    /\ \A v \in Workers \ {w} : pc[v] # "send_hit"
    /\ LET size == resp[existing_response[w]].filesize
       IN  \E n \in {-1} \cup 1..(size - total_sent[w]) :
             LET t == total_sent[w] + n
             IN  /\ total_sent' = [total_sent EXCEPT ![w] = t]
                 /\ Goto(w, IF t >= 0 /\ t < size THEN "send_hit" ELSE "log_hit_lock")
    /\ UNCHANGED <<missVars, inserted,
                   envVars, filename, existing_node, existing_response, new,
                   mutex, deck_mutex, pq_mutex, resp, enq, deckVars, pq>>

\* one iteration of the send loop of send_existing_http_response:
\* total_sent += send(...), where send returns -1 or the number of bytes taken;
\* the loop test converts total_sent to the unsigned type of filesize
RCSendExisting(w) ==
    /\ server = "rc"
    /\ pc[w] = "send_hit"
    /\ LET size == resp[existing_response[w]].filesize
       IN  \E n \in {-1} \cup 1..(size - total_sent[w]) :
             LET t == total_sent[w] + n
             IN  /\ total_sent' = [total_sent EXCEPT ![w] = t]
                 /\ Goto(w, IF t >= 0 /\ t < size THEN "send_hit" ELSE "log_hit_lock")
    /\ UNCHANGED <<missVars, inserted,
                   envVars, filename, existing_node, existing_response, new,
                   mutex, deck_mutex, pq_mutex, resp, enq, deckVars, pq>>

\* RCWriteLogHit of a worker that goes on to put_down without the lock
RCWriteLogHit_nolock(w) ==
    /\ server = "rc"
    /\ pc[w] = "log_hit"
    /\ mutex = w
    /\ mutex' = NULL
    /\ Goto(w, "put_down")
    /\ UNCHANGED <<envVars, locals, deck_mutex, pq_mutex, resp, enq, deckVars, pq>>

\* hit path: fprintf, fflush, unlock of the statistics line
RCWriteLogHit(w) ==
    /\ server = "rc"
    /\ pc[w] = "log_hit"
    /\ mutex = w
    /\ mutex' = NULL
    /\ Goto(w, "lock_put_down")
    /\ UNCHANGED <<envVars, locals, deck_mutex, pq_mutex, resp, enq, deckVars, pq>>

\* put_down under deck_mutex, unlock, close, pthread_exit
RCPutDown(w) ==
    /\ server = "rc"
    /\ pc[w] = "put_down"
    /\ deck_mutex = w
    /\ LET r == put_down(node, resp, existing_node[w])
       IN  node' = r.node /\ resp' = r.resp
    /\ deck_mutex' = NULL
    /\ Exit(w)
    /\ UNCHANGED <<envVars, mutex, pq_mutex, enq, deck, pq>>

\* enqueue under deck_mutex, unlock; malloc(sizeof(Node)) returns NULL when
\* the heap is exhausted, and then *new is lost with the thread
RCEnqueue(w) ==
    /\ server = "rc"
    /\ pc[w] = "enqueue"
    /\ deck_mutex = w
    /\ LET ok == Len(node) < heap_nodes
           a == Len(resp) + 1
           r == enqueue_deck(deck, node, a, ok)
       IN  /\ deck' = r.deck
           /\ node' = r.node
           /\ resp' = IF ok THEN Append(resp, Stored(new[w])) ELSE resp
           /\ enq' = IF ok THEN Append(enq, new[w]) ELSE enq
    /\ new' = [new EXCEPT ![w] = NoResp]
    /\ inserted' = [inserted EXCEPT ![w] =
                       IF Len(node) < heap_nodes THEN Len(resp) + 1 ELSE NULL]
    /\ deck_mutex' = NULL
    /\ Goto(w, "log_lock")
    /\ UNCHANGED <<missVars,
                   envVars, filename, existing_node, existing_response, total_sent,
                   mutex, pq_mutex, pq>>

NextRC ==
    \E w \in Workers :
        \/ Accept(w)
        \/ OpenFails(w)
        \/ OpenAndBuild(w)
        \/ ReadFile(w)
        \/ LockLog(w)
        \/ WriteLog(w)
        \/ RCLockDeck(w)
        \/ RCSearch(w)
        \/ RCSendExisting(w)
        \/ RCWriteLogHit(w)
        \/ RCPutDown(w)
        \/ RCEnqueue(w)

SpecRC == InitRC /\ [][NextRC]_vars

\* server_cached.c on a heap that has room for the nodes of a full list only:
\* the malloc of the sixth Node returns NULL
InitRCFail == server = "rc" /\ heap_nodes = MAX_CACHE_COUNT /\ heap_resps = MaxAllocs
              /\ InitCommon

SpecRCFail == InitRCFail /\ [][NextRC]_vars

\* what a running thread of server_cached does next on its own: every step
\* but accept (a client must arrive) and the two lock calls
RCRun(w) ==
    \/ OpenFails(w)
    \/ OpenAndBuild(w)
    \/ ReadFile(w)
    \/ WriteLog(w)
    \/ RCSearch(w)
    \/ RCSendExisting(w)
    \/ RCWriteLogHit(w)
    \/ RCPutDown(w)
    \/ RCEnqueue(w)

\* the scheduler runs every runnable thread, send and fread return, and a
\* thread that blocks in pthread_mutex_lock gets the mutex if it is free again
\* and again
FairRC ==
    \A w \in Workers :
        /\ WF_vars(RCRun(w))
        /\ SF_vars(RCLockDeck(w))
        /\ SF_vars(LockLog(w))

\* server_cached on a heap with room for MaxAllocsFair responses
InitRCFair ==
    /\ server = "rc"
    /\ heap_nodes = MaxNodes /\ heap_resps = MaxAllocsFair
    /\ InitCommon

SpecRCFair == InitRCFair /\ [][NextRC]_vars /\ FairRC

-----------------------------------------------------------------------------
(* handle_client_connection of server_cached_naive.c *)

\* pthread_mutex_lock(&pq_mutex); the run ends when the clock reaches MaxClock
NVLockPQ(w) ==
    /\ server = "naive"
    /\ pc[w] \in {"lock_search", "lock_enqueue"}
    /\ pc[w] = "lock_search" => now <= MaxClock
    /\ pq_mutex = NULL
    /\ pq_mutex' = w
    /\ Goto(w, IF pc[w] = "lock_search" THEN "search" ELSE "enqueue")
    /\ UNCHANGED <<envVars, locals, mutex, deck_mutex, resp, enq, deckVars, pq>>

\* NVSearch that unlocks pq_mutex on a hit too, before the payload is sent
NVSearch_unlock(w) ==
    /\ server = "naive"
    /\ pc[w] = "search"
    /\ pq_mutex = w
    /\ LET r == search_pq(pq, resp, filename[w], Timespec(now, 0))
       IN  /\ resp' = r.resp
           /\ existing_response' = [existing_response EXCEPT ![w] = r.ret]
           /\ now' = IF r.ret # NULL THEN now + 1 ELSE now
           /\ pq_mutex' = NULL
           /\ Goto(w, IF r.ret # NULL THEN "send_hit" ELSE "fopen")
    /\ UNCHANGED <<missVars, inserted,
                   server, nseen, heap, procVars, filename, existing_node, new, total_sent,
                   mutex, deck_mutex, enq, deckVars, pq>>

\* NVSearch that leaves pq_mutex locked on a miss as well
NVSearch_keep(w) ==
    /\ server = "naive"
    /\ pc[w] = "search"
    /\ pq_mutex = w
    /\ LET r == search_pq(pq, resp, filename[w], Timespec(now, 0))
       IN  /\ resp' = r.resp
           /\ existing_response' = [existing_response EXCEPT ![w] = r.ret]
           /\ now' = IF r.ret # NULL THEN now + 1 ELSE now
           /\ pq_mutex' = w
           /\ Goto(w, IF r.ret # NULL THEN "send_hit" ELSE "fopen")
    /\ UNCHANGED <<missVars, inserted,
                   server, nseen, heap, procVars, filename, existing_node, new, total_sent,
                   mutex, deck_mutex, enq, deckVars, pq>>

\* search under pq_mutex; on a hit the worker goes on to send with the lock
\* held, on a miss it unlocks
NVSearch(w) ==
    /\ server = "naive"
    /\ pc[w] = "search"
    /\ pq_mutex = w
    /\ LET r == search_pq(pq, resp, filename[w], Timespec(now, 0))
       IN  /\ resp' = r.resp
           /\ existing_response' = [existing_response EXCEPT ![w] = r.ret]
           /\ now' = IF r.ret # NULL THEN now + 1 ELSE now
           /\ pq_mutex' = IF r.ret # NULL THEN w ELSE NULL
           /\ Goto(w, IF r.ret # NULL THEN "send_hit" ELSE "fopen")
    /\ UNCHANGED <<missVars, inserted,
                   server, nseen, heap, procVars, filename, existing_node, new, total_sent,
                   mutex, deck_mutex, enq, deckVars, pq>>

\* one iteration of the send loop of send_existing_http_response:
\* bytes_sent = send(...); if(bytes_sent <= 0) break; total_sent += bytes_sent
NVSendExisting(w) ==
    /\ server = "naive"
    /\ pc[w] = "send_hit"
    /\ LET size == resp[existing_response[w]].filesize
       IN  \E n \in {-1, 0} \cup 1..(size - total_sent[w]) :
             IF n <= 0
             THEN /\ Goto(w, "log_hit_lock")
                  /\ UNCHANGED total_sent
             ELSE /\ total_sent' = [total_sent EXCEPT ![w] = @ + n]
                  /\ Goto(w, IF total_sent[w] + n < size THEN "send_hit"
                                                        ELSE "log_hit_lock")
    /\ UNCHANGED <<missVars, inserted,
                   envVars, filename, existing_node, existing_response, new,
                   mutex, deck_mutex, pq_mutex, resp, enq, deckVars, pq>>

\* NVWriteLogHit that exits without the unlock of pq_mutex
NVWriteLogHit_keep(w) ==
    /\ server = "naive"
    /\ pc[w] = "log_hit"
    /\ mutex = w
    /\ mutex' = NULL
    /\ pq_mutex' = pq_mutex
    /\ Exit(w)
    /\ UNCHANGED <<envVars, deck_mutex, resp, enq, deckVars, pq>>

\* hit path: fprintf, fflush, unlock of mutex; then unlock of pq_mutex, close,
\* pthread_exit
NVWriteLogHit(w) ==
    /\ server = "naive"
    /\ pc[w] = "log_hit"
    /\ mutex = w
    /\ mutex' = NULL
    /\ pq_mutex' = NULL
    /\ Exit(w)
    /\ UNCHANGED <<envVars, deck_mutex, resp, enq, deckVars, pq>>

\* enqueue under pq_mutex, unlock
NVEnqueue(w) ==
    /\ server = "naive"
    /\ pc[w] = "enqueue"
    /\ pq_mutex = w
    /\ LET a == Len(resp) + 1
           r == enqueue_pq(pq, Append(resp, StoredAt(new[w], a)), a)
       IN  /\ pq' = r.pq
           /\ resp' = r.resp
    /\ enq' = Append(enq, new[w])
    /\ new' = [new EXCEPT ![w] = NoResp]
    /\ inserted' = [inserted EXCEPT ![w] = Len(resp) + 1]
    /\ pq_mutex' = NULL
    /\ Goto(w, "log_lock")
    /\ UNCHANGED <<missVars,
                   envVars, filename, existing_node, existing_response, total_sent,
                   mutex, deck_mutex, deckVars>>

NextNaive ==
    \E w \in Workers :
        \/ Accept(w)
        \/ OpenFails(w)
        \/ OpenAndBuild(w)
        \/ ReadFile(w)
        \/ LockLog(w)
        \/ WriteLog(w)
        \/ NVLockPQ(w)
        \/ NVSearch(w)
        \/ NVSendExisting(w)
        \/ NVWriteLogHit(w)
        \/ NVEnqueue(w)

SpecNaive == InitNaive /\ [][NextNaive]_vars

\* what a running thread of the naive server does next on its own: every
\* step but accept (a client must arrive) and the two lock calls
NVRun(w) ==
    \/ OpenFails(w)
    \/ OpenAndBuild(w)
    \/ ReadFile(w)
    \/ WriteLog(w)
    \/ NVSearch(w)
    \/ NVSendExisting(w)
    \/ NVWriteLogHit(w)
    \/ NVEnqueue(w)

\* the scheduler runs every runnable thread, send and fread return, and a
\* thread that blocks in pthread_mutex_lock gets the mutex if it is free again
\* and again
FairNaive ==
    \A w \in Workers :
        /\ WF_vars(NVRun(w))
        /\ SF_vars(NVLockPQ(w))
        /\ SF_vars(LockLog(w))

\* the naive server on a heap with room for MaxAllocsFair responses
InitNaiveFair ==
    /\ server = "naive"
    /\ heap_nodes = MaxNodes /\ heap_resps = MaxAllocsFair
    /\ InitCommon

SpecNaiveFair == InitNaiveFair /\ [][NextNaive]_vars /\ FairNaive

Next == NextRC \/ NextNaive

Spec == Init /\ [][Next]_vars

\* both servers with the read and send loop of the miss path step by step
InitMiss ==
    /\ server \in {"rc", "naive"}
    /\ heap_nodes = MaxNodes /\ heap_resps = MaxAllocsFair
    /\ InitCommon

NextMiss ==
    \E w \in Workers :
        \/ Accept(w)
        \/ OpenFails(w)
        \/ OpenAndBuild(w)
        \/ Fread(w)
        \/ RCSendMiss(w)
        \/ NVSendMiss(w)
        \/ LockLog(w)
        \/ WriteLog(w)
        \/ RCLockDeck(w)
        \/ RCSearch(w)
        \/ RCSendExisting(w)
        \/ RCWriteLogHit(w)
        \/ RCPutDown(w)
        \/ RCEnqueue(w)
        \/ NVLockPQ(w)
        \/ NVSearch(w)
        \/ NVSendExisting(w)
        \/ NVWriteLogHit(w)
        \/ NVEnqueue(w)

SpecMiss == InitMiss /\ [][NextMiss]_vars

-----------------------------------------------------------------------------
(* server_thread.c: one thread per connection, no cache *)

\* accept + pthread_create; recv and sscanf of the request
THAccept(w) ==
    /\ server = "thread"
    /\ pc[w] = "idle"
    /\ \E f \in 1..Min(nseen + 1, NFiles) \cup {NoSuchFile} :
         /\ filename' = [filename EXCEPT ![w] = f]
         /\ nseen' = IF f \in Files /\ f > nseen THEN f ELSE nseen
    /\ Goto(w, "th_fopen")
    /\ UNCHANGED <<missVars, inserted, server, now, heap, procVars, existing_node,
                   existing_response, new, total_sent, mutex, deck_mutex, pq_mutex,
                   resp, enq, deckVars, pq>>

\* fopen fails: 404, shutdown, close, pthread_exit
THOpenFails(w) ==
    /\ server = "thread"
    /\ pc[w] = "th_fopen"
    /\ filename[w] \notin Files
    /\ Exit(w)
    /\ UNCHANGED <<envVars, mutex, deck_mutex, pq_mutex, resp, enq, deckVars, pq>>

\* the headers and the fread and send loop
THServe(w) ==
    /\ server = "thread"
    /\ pc[w] = "th_fopen"
    /\ filename[w] \in Files
    /\ Goto(w, "log_lock")
    /\ UNCHANGED <<envVars, locals, mutex, deck_mutex, pq_mutex, resp, enq, deckVars,
                   pq>>

NextThread ==
    \E w \in Workers :
        \/ THAccept(w)
        \/ THOpenFails(w)
        \/ THServe(w)
        \/ LockLog(w)
        \/ WriteLog(w)

InitThread == server = "thread" /\ InitHeap /\ InitCommon

SpecThread == InitThread /\ [][NextThread]_vars

-----------------------------------------------------------------------------
(* The process server: one child process per connection, no cache.  A child
   has its own copy of the stdio buffer of stats_proc_txt; the semaphore
   stats_proc lives in shared memory. *)

\* what the child does not touch
ProcRest ==
    <<server, now, heap, existing_node, existing_response, new, total_sent, missVars,
      inserted, mutex, deck_mutex, pq_mutex, resp, enq, deckVars, pq>>

\* accept + fork; the child: recv and sscanf.  long: recv filled the buffer,
\* so the child enters the discard loop
PRAccept(w) ==
    /\ server = "proc"
    /\ pc[w] = "idle"
    /\ \E f \in 1..Min(nseen + 1, NFiles) \cup {NoSuchFile} :
         /\ filename' = [filename EXCEPT ![w] = f]
         /\ nseen' = IF f \in Files /\ f > nseen THEN f ELSE nseen
    /\ \E long \in BOOLEAN : Goto(w, IF long THEN "discard" ELSE "pr_fopen")
    /\ UNCHANGED <<procVars, ProcRest>>

\* the test of while(recv(connfd, buffer, sizeof(buffer), 0) == sizeof(buffer))
PRDiscard(w) ==
    /\ server = "proc"
    /\ pc[w] = "discard"
    /\ \E more \in BOOLEAN : Goto(w, IF more THEN "fwrite" ELSE "pr_fopen")
    /\ UNCHANGED <<procVars, nseen, filename, ProcRest>>

\* the body of that loop: fwrite(buffer, sizeof(char), amt, stats_proc_txt),
\* twice
PRFwrite(w) ==
    /\ server = "proc"
    /\ pc[w] = "fwrite"
    /\ stdio_buf' = [stdio_buf EXCEPT ![w] = @ \cup {"request"}]
    /\ Goto(w, "discard")
    /\ UNCHANGED <<stats_proc, nseen, filename, ProcRest>>

\* fopen; 404 or the headers and the fread and send loop
PRServe(w) ==
    /\ server = "proc"
    /\ pc[w] = "pr_fopen"
    /\ Goto(w, IF filename[w] \in Files THEN "sem_wait" ELSE "fclose")
    /\ UNCHANGED <<procVars, nseen, filename, ProcRest>>

\* sem_wait(stats_proc)
PRSemWait(w) ==
    /\ server = "proc"
    /\ pc[w] = "sem_wait"
    /\ stats_proc > 0
    /\ stats_proc' = stats_proc - 1
    /\ Goto(w, "fprintf")
    /\ UNCHANGED <<stdio_buf, nseen, filename, ProcRest>>

\* fprintf(stats_proc_txt, ...), which fills the child's stdio buffer, and
\* sem_post(stats_proc)
PRLog(w) ==
    /\ server = "proc"
    /\ pc[w] = "fprintf"
    /\ stdio_buf' = [stdio_buf EXCEPT ![w] = @ \cup {"line"}]
    /\ stats_proc' = stats_proc + 1
    /\ Goto(w, "fclose")
    /\ UNCHANGED <<nseen, filename, ProcRest>>

\* shutdown, close, fclose(stats_proc_txt), which writes the buffer to the
\* file, return and exit
PRFclose(w) ==
    /\ server = "proc"
    /\ pc[w] = "fclose"
    /\ stdio_buf' = [stdio_buf EXCEPT ![w] = {}]
    /\ filename' = [filename EXCEPT ![w] = NULL]
    /\ Goto(w, "idle")
    /\ UNCHANGED <<stats_proc, nseen, ProcRest>>

NextProc ==
    \E w \in Workers :
        \/ PRAccept(w)
        \/ PRDiscard(w)
        \/ PRFwrite(w)
        \/ PRServe(w)
        \/ PRSemWait(w)
        \/ PRLog(w)
        \/ PRFclose(w)

InitProc == server = "proc" /\ InitHeap /\ InitCommon

SpecProc == InitProc /\ [][NextProc]_vars

\* any of the four servers
InitServers ==
    /\ server \in {"rc", "naive", "thread", "proc"}
    /\ heap_nodes = MaxNodes /\ heap_resps = MaxAllocsFair
    /\ InitCommon

NextServers == NextRC \/ NextNaive \/ NextThread \/ NextProc

SpecServers == InitServers /\ [][NextServers]_vars

-----------------------------------------------------------------------------
(* PriorityQueue.c on its own: the calls of search and enqueue in the order  *)
(* pq_mutex lets them happen.  Every call is made with pq_mutex held, so the *)
(* calls of all the workers form one sequence; a worker that missed on a     *)
(* name may call enqueue for it at any later time.                           *)

InitPQ == server = "pq" /\ InitHeap /\ InitCommon

\* some worker calls search(pq, f); a hit reads CLOCK_REALTIME
PQSearchCall ==
    /\ server = "pq"
    /\ now <= MaxClock
    /\ \E f \in 1..nseen :
         LET r == search_pq(pq, resp, f, Timespec(now, 0))
         IN  /\ r.ret # NULL
             /\ resp' = r.resp
             /\ now' = now + 1
    /\ UNCHANGED <<server, nseen, heap, procVars, pc, locals, mutex, deck_mutex, pq_mutex,
                   enq, deckVars, pq>>

\* some worker that missed on f calls enqueue(pq, new) with the struct it
\* built: the file's bytes and its thread's CPU time.  f is a name not asked
\* for before, or once more the newest name (a second worker missed on it)
PQEnqueueCall ==
    /\ server = "pq"
    /\ Len(resp) < heap_resps
    /\ \E f \in {nseen, nseen + 1} \cap Files, cpu \in 1..MaxCpuSeq :
         LET value == [filename |-> f, response |-> FileBytes(f),
                       filesize |-> Len(FileBytes(f)),
                       access_time |-> Timespec(0, cpu)]
             r == enqueue_pq(pq, Append(resp, StoredAt(value, Len(resp) + 1)),
                             Len(resp) + 1)
         IN  /\ pq' = r.pq
             /\ resp' = r.resp
             /\ enq' = Append(enq, value)
             /\ nseen' = IF f > nseen THEN f ELSE nseen
    /\ UNCHANGED <<server, now, heap, procVars, pc, locals, mutex, deck_mutex, pq_mutex,
                   deckVars>>

NextPQ == PQSearchCall \/ PQEnqueueCall

SpecPQ == InitPQ /\ [][NextPQ]_vars

-----------------------------------------------------------------------------
(* Properties *)

\* positions at which a worker of server_cached.c holds a pin
PinPcs == {"send_hit", "log_hit_lock", "log_hit", "lock_put_down", "put_down"}

\* positions of the naive server between a successful search and the unlock
NaiveHitPcs == {"send_hit", "log_hit_lock", "log_hit"}

RECURSIVE ListLen(_, _, _)
\* number of nodes met following next from curr, at most fuel of them
ListLen(nd, curr, fuel) ==
    IF curr = NULL \/ fuel = 0 THEN 0
    ELSE 1 + ListLen(nd, nd[curr].next, fuel - 1)

\* C1: in server_cached a node with reference_count > 0 is never freed, nor
\* is its HttpResponse, and no worker between search and put_down refers to a
\* freed node or payload, also when enqueue retired the node meanwhile.
C1_PinnedNeverFreed ==
    server = "rc" =>
        /\ \A n \in DOMAIN node :
             node[n].reference_count > 0 =>
                ~node[n].freed /\ ~resp[node[n].data].freed
        /\ \A w \in Workers :
             pc[w] \in PinPcs =>
                /\ ~node[existing_node[w]].freed
                /\ ~resp[existing_response[w]].freed

\* a reader is sending the payload of a node that enqueue has retired
C1_Witness ==
    /\ server = "rc"
    /\ \E w \in Workers :
         /\ pc[w] = "send_hit"
         /\ total_sent[w] = 1
         /\ node[existing_node[w]].valid = 0
         /\ ~node[existing_node[w]].freed

\* C2: in the naive server, whenever search returned non-NULL, the struct the
\* returned pointer points to has the requested filename and the payload and
\* filesize that were enqueued under that filename, whatever slot matched.
C2_SearchReturnsTarget ==
    server = "naive" =>
        \A w \in Workers :
            pc[w] \in NaiveHitPcs =>
                LET a == existing_response[w]
                IN  /\ resp[a].filename = filename[w]
                    /\ \E b \in DOMAIN enq :
                         /\ enq[b].filename = filename[w]
                         /\ enq[b].response = resp[a].response
                         /\ enq[b].filesize = resp[a].filesize

\* C3: in server_cached, whenever search returned non-NULL, the returned
\* HttpResponse has the requested filename and exactly the payload passed to
\* the enqueue that created its node, for as long as the reader holds the pin.
C3_HitReturnsEnqueued ==
    server = "rc" =>
        \A w \in Workers :
            pc[w] \in PinPcs =>
                LET a == existing_response[w]
                IN  /\ a # NULL
                    /\ node[existing_node[w]].data = a
                    /\ resp[a].filename = filename[w]
                    /\ enq[a].filename = filename[w]
                    /\ resp[a].response = enq[a].response
                    /\ resp[a].filesize = enq[a].filesize
                    /\ enq[a].response = FileBytes(filename[w])

\* a reader has sent the whole payload of a node that was retired meanwhile
C3_Witness ==
    /\ server = "rc"
    /\ \E w \in Workers :
         /\ pc[w] = "lock_put_down"
         /\ total_sent[w] = resp[existing_response[w]].filesize
         /\ node[existing_node[w]].valid = 0

\* C4: neither cache ever holds more than 5 live entries: deck->size and the
\* number of nodes reachable from head never exceed MAX_CACHE_COUNT, pq->size
\* and the number of unfreed enqueued structs never exceed MAX.
C4_CacheBounded ==
    /\ deck.size <= MAX_CACHE_COUNT
    /\ ListLen(node, deck.head, Len(node) + 1) <= MAX_CACHE_COUNT
    /\ pq.size <= MAX
    /\ server = "naive" =>
         Cardinality({a \in DOMAIN resp : ~resp[a].freed}) <= MAX

\* the PriorityQueue is full after an enqueue at capacity evicted an entry
C4_Witness ==
    /\ server = "naive"
    /\ pq.size = MAX
    /\ \E a \in DOMAIN resp : resp[a].freed

\* C5: in the naive server a worker whose search hit holds pq_mutex until its
\* transmission is over; so at most one worker transmits a cached payload, and
\* meanwhile no other worker searches, enqueues or can acquire pq_mutex.
C5_HitHoldsLock ==
    server = "naive" =>
        \A w \in Workers :
            pc[w] \in NaiveHitPcs =>
                /\ pq_mutex = w
                /\ \A v \in Workers \ {w} :
                     /\ pc[v] \notin NaiveHitPcs \cup {"search", "enqueue"}
                     /\ ~ENABLED NVLockPQ(v)

\* one worker is in the middle of a cached payload while another, asking for
\* a different file, waits for pq_mutex
C5_Witness ==
    /\ server = "naive"
    /\ \E w, v \in Workers :
         /\ pc[w] = "send_hit"
         /\ total_sent[w] = 1
         /\ pc[v] = "lock_search"
         /\ filename[v] # filename[w]

\* C6: in server_cached no worker holds deck_mutex while it sends or reads a
\* file; deck_mutex is held only around search, put_down and enqueue.
C6_NoLockDuringIO ==
    server = "rc" =>
        \A w \in Workers :
            /\ deck_mutex = w => pc[w] \in {"search", "put_down", "enqueue"}
            /\ pc[w] \in {"send_hit", "fopen", "read"} => deck_mutex # w

\* a worker is in the middle of a cached payload while another worker is
\* inside a critical section of deck_mutex
C6_Witness ==
    /\ server = "rc"
    /\ \E w, v \in Workers :
         /\ pc[w] = "send_hit"
         /\ total_sent[w] = 1
         /\ deck_mutex = v
         /\ pc[v] = "enqueue"

\* C7: in server_cached a reader that holds its pin can always take its next
\* send step, whatever the other readers do; two readers that transmit the
\* same node at once are both counted in its reference_count.
C7_ParallelReaders ==
    server = "rc" =>
        \A w \in Workers :
            pc[w] = "send_hit" =>
                /\ ENABLED RCSendExisting(w)
                /\ \A v \in Workers \ {w} :
                     (pc[v] = "send_hit" /\ existing_node[v] = existing_node[w])
                        => node[existing_node[w]].reference_count >= 2

\* two workers are both in the middle of transmitting the same node
C7_Witness ==
    /\ server = "rc"
    /\ \E w, v \in Workers :
         /\ w # v
         /\ pc[w] = "send_hit" /\ pc[v] = "send_hit"
         /\ total_sent[w] = 1 /\ total_sent[v] = 1
         /\ existing_node[w] = existing_node[v]

\* two workers are both in the middle of transmitting different nodes
C7_WitnessDistinct ==
    /\ server = "rc"
    /\ \E w, v \in Workers :
         /\ pc[w] = "send_hit" /\ pc[v] = "send_hit"
         /\ existing_node[w] # existing_node[v]

\* C8: no retired node (valid == 0) with reference_count == 0 remains unfreed
\* once the operation that retired or unpinned it has completed.
C8_RetiredUnpinnedFreed ==
    server = "rc" =>
        \A n \in DOMAIN node :
            (node[n].valid = 0 /\ node[n].reference_count = 0) => node[n].freed

\* the step of worker w that runs put_down
C9_PutDownStep(w) ==
    (pc[w] = "put_down" /\ pc'[w] = "idle") =>
        LET n == existing_node[w]
        IN  /\ ~node[n].freed
            /\ node'[n].reference_count = node[n].reference_count - 1
            /\ node'[n].freed <=> (node[n].reference_count = 1 /\ node[n].valid = 0)
            /\ resp'[node[n].data].freed <=> node'[n].freed
            /\ node[n].valid = 1 => ~node'[n].freed
            /\ \A m \in DOMAIN node \ {n} : node'[m] = node[m]

C10_PinCount ==
    server = "rc" =>
        \A n \in DOMAIN node :
            node[n].reference_count =
                Cardinality({w \in Workers : pc[w] \in PinPcs /\ existing_node[w] = n})

\* two workers hold a pin on the same node
C10_Witness ==
    /\ server = "rc"
    /\ \E n \in DOMAIN node : node[n].reference_count = 2

\* the step of worker w in which search(deck, ...) returns a node
RCHitStep(w) == server = "rc" /\ pc[w] = "search" /\ pc'[w] = "send_hit"

\* C11: a successful search of server_cached refreshes the entry's access_time
\* and moves the matched node toward the head, so that right after a hit the
\* node is not the tail (the next to be retired) while another entry is cached.
C11_HitPromotes ==
    [][\A w \in Workers :
          RCHitStep(w) =>
             LET n == existing_node'[w]
             IN  /\ resp'[node[n].data].access_time # resp[node[n].data].access_time
                 /\ deck'.size >= 2 => deck'.tail # n]_vars

\* the step of worker w in which enqueue(deck, new) links a node
RCEnqueueStep(w) ==
    server = "rc" /\ pc[w] = "enqueue" /\ pc'[w] = "log_lock" /\ Len(node') > Len(node)

\* the live nodes of the heap nd
LiveNodes(nd) == {m \in DOMAIN nd : nd[m].valid = 1}

\* what C12 says of the enqueue step of worker w
C12_EnqueueStep(w) ==
    RCEnqueueStep(w) =>
        LET n == Len(node) + 1
            key == new[w].filename
            old == deck.tail
        IN  /\ deck'.head = n
            /\ node'[n].valid = 1
            /\ node'[n].next = deck.head
            /\ resp'[node'[n].data].filename = key
            /\ search_deck(deck', node', resp', key).existing_node = n
            /\ IF deck.size = MAX_CACHE_COUNT
               THEN /\ LiveNodes(node') = (LiveNodes(node) \ {old}) \cup {n}
                    /\ \A m \in LiveNodes(node) : old <= m
                    /\ deck'.tail = node[old].prev
                    /\ deck'.size = MAX_CACHE_COUNT
                    /\ (\A m \in LiveNodes(node') :
                           resp'[node'[m].data].filename # resp[node[old].data].filename)
                       => search_deck(deck', node', resp',
                                      resp[node[old].data].filename).ret = NULL
               ELSE /\ LiveNodes(node') = LiveNodes(node) \cup {n}
                    /\ deck'.size = deck.size + 1
                    /\ deck'.tail = IF deck.size = 0 THEN n ELSE deck.tail

\* C12: enqueue of server_cached on a list of 5 nodes retires exactly the tail,
\* the least recently inserted live node, and links the new node at the head;
\* on a shorter list it retires nothing and links the new node at the head.
\* Afterwards a search for the new key returns the new node, and a search for
\* the retired key misses unless another live node has that key.
C12_EnqueueRetiresTail ==
    [][\A w \in Workers : C12_EnqueueStep(w)]_vars

\* after an enqueue on a full list: the retired key is no longer found
C12_Witness ==
    /\ server = "rc"
    /\ deck.size = MAX_CACHE_COUNT
    /\ \E m \in DOMAIN node :
         /\ node[m].valid = 0
         /\ search_deck(deck, node, resp, resp[node[m].data].filename).ret = NULL
    /\ \E w \in Workers : pc[w] = "log_lock" /\ deck.head = Len(node)

\* the (filename, payload, filesize, access_time) held by the struct at a
EntryAt(rs, a) ==
    [filename |-> rs[a].filename, response |-> rs[a].response,
     filesize |-> rs[a].filesize, access_time |-> rs[a].access_time]

\* the entry stored in slot i of q
Entry(q, rs, i) == EntryAt(rs, q.items[i])

\* the entries stored in q
Entries(q, rs) == {Entry(q, rs, i) : i \in 0..(q.size - 1)}

\* the stored access_time values are pairwise distinct
DistinctTimes(q, rs) ==
    \A i, j \in 0..(q.size - 1) :
        i # j => rs[q.items[i]].access_time # rs[q.items[j]].access_time

\* the step in which enqueue(pq, value) is called
PQEnqueueStep == server = "pq" /\ Len(resp') = Len(resp) + 1

\* what C13 says of an enqueue on a full queue with pairwise distinct times
C13_EnqueueStep ==
    (PQEnqueueStep /\ pq.size = MAX /\ DistinctTimes(pq, resp)) =>
        LET value == enq'[Len(enq')]
            oldest == CHOOSE e \in Entries(pq, resp) :
                        \A d \in Entries(pq, resp) :
                            compare_timespec(e.access_time, d.access_time) <= 0
            t == Timespec(now, 0)
        IN  /\ pq'.size = MAX
            /\ Entries(pq', resp') = (Entries(pq, resp) \ {oldest}) \cup {value}
            /\ Cardinality({a \in DOMAIN resp : resp'[a].freed /\ ~resp[a].freed}) = 1
            /\ \A i \in 0..(MAX - 1) : ~resp'[pq'.items[i]].freed
            /\ search_pq(pq', resp', value.filename, t).ret # NULL
            /\ (\A e \in Entries(pq', resp') : e.filename # oldest.filename)
               => search_pq(pq', resp', oldest.filename, t).ret = NULL

\* C13: an enqueue of PriorityQueue.c on a full queue whose access_time values
\* are pairwise distinct removes exactly the entry with the smallest
\* access_time of all 5, installs the new entry and leaves size at 5; then a
\* search for the new key hits and one for the removed key, unless a duplicate
\* of it is stored, returns NULL.
C13_EvictsOldest == [][C13_EnqueueStep]_vars

\* a queue that was full with pairwise distinct times has taken a sixth entry,
\* and the key of the entry it lost is no longer found
C13_Witness ==
    /\ server = "pq"
    /\ pq.size = MAX
    /\ \E a \in DOMAIN resp :
         LET value == enq[Len(enq)]
             before == (Entries(pq, resp) \ {value}) \cup {EntryAt(resp, a)}
         IN  /\ resp[a].freed
             /\ Cardinality({e.access_time : e \in before}) = MAX
             /\ \A e \in before :
                  compare_timespec(resp[a].access_time, e.access_time) <= 0
             /\ search_pq(pq, resp, resp[a].filename, Timespec(now, 0)).ret = NULL

\* C14: in every state of the naive server's queue between two calls, each
\* slot i with 0 < i < size holds an access_time that is >= the one of its
\* parent slot (i-1)/2 (min-heap), so slot 0 holds the least recently accessed
\* entry.
C14_MinHeap ==
    server \in {"pq", "naive"} =>
        \A i \in 1..(pq.size - 1) :
            compare_timespec(resp[pq.items[(i - 1) \div 2]].access_time,
                             resp[pq.items[i]].access_time) <= 0

\* C15: in both engines two successful lookups of a key k, with no eviction
\* of k between them, return the same payload bytes: here, the lookup a worker
\* would make now and the lookup the next worker would make right after it.
C15_LookupIdempotent ==
    \A k \in 1..nseen :
        /\ server = "rc" =>
             LET r1 == search_deck(deck, node, resp, k)
                 r2 == search_deck(deck, r1.node, resp, k)
             IN  r1.ret # NULL =>
                    r2.ret # NULL /\ resp[r1.ret].response = resp[r2.ret].response
        /\ server = "naive" =>
             LET r1 == search_pq(pq, resp, k, Timespec(now, 0))
                 r2 == search_pq(pq, r1.resp, k, Timespec(now + 1, 0))
             IN  r1.ret # NULL =>
                    r2.ret # NULL
                    /\ r1.resp[r1.ret].response = r2.resp[r2.ret].response

\* the step in which one of the mallocs of the miss path (the HttpResponse,
\* its filename, its payload buffer) returns NULL and worker w exits
MissAllocFailStep(w) ==
    pc[w] = "fopen" /\ filename[w] \in Files /\ pc'[w] = "idle"

\* the step in which enqueue(deck, new) returns without a node: *new is not
\* stored
NodeAllocFailStep(w) ==
    /\ server = "rc"
    /\ pc[w] = "enqueue" /\ pc'[w] = "log_lock"
    /\ Len(resp') = Len(resp)

\* C16: a step in which an allocation fails (the list node in enqueue of
\* server_cached, or the HttpResponse, its filename or its payload on the
\* miss path) changes nothing of the cache: list links, head, tail, size,
\* valid flags and reference counts, the queue's slots and size, the stored
\* structs; and the worker holds no lock after it.
C16_AllocFailureKeepsCache ==
    [][\A w \in Workers :
          (MissAllocFailStep(w) \/ NodeAllocFailStep(w)) =>
             /\ deck' = deck /\ node' = node
             /\ pq' = pq /\ resp' = resp
             /\ deck_mutex' # w /\ pq_mutex' # w /\ mutex' # w]_vars

\* the malloc of the node has failed in an enqueue on a full list: the worker
\* is past the critical section and its file is not in the cache
C16_Witness ==
    /\ server = "rc"
    /\ deck.size = MAX_CACHE_COUNT
    /\ Len(node) = heap_nodes
    /\ \E w \in Workers :
         /\ pc[w] = "log_lock"
         /\ new[w] = NoResp
         /\ search_deck(deck, node, resp, filename[w]).ret = NULL

\* a worker has opened its file while the heap is exhausted: the malloc of
\* its HttpResponse is about to fail
C16_WitnessMiss ==
    /\ \E w \in Workers :
         pc[w] = "fopen" /\ filename[w] \in Files /\ Allocated >= heap_resps

\* C17: in both cached servers a worker that has opened the requested file
\* never exits before it has read the file and sent its bytes, also when a
\* malloc of the miss path returns NULL.
C17_AllocFailureStillServes ==
    [][\A w \in Workers :
          (pc[w] = "fopen" /\ filename[w] \in Files /\ pc'[w] # pc[w])
             => pc'[w] = "read"]_vars

\* worker v is blocked in, or about to call, pthread_mutex_lock(&pq_mutex)
WaitsPQ(v) == server = "naive" /\ pc[v] \in {"lock_search", "lock_enqueue"}

\* the clock of the run has reached its bound: no further search is started
RunOver(v) == pc[v] = "lock_search" /\ now > MaxClock

\* C18: in the naive server a worker that holds pq_mutex eventually releases
\* it, after a miss, after a complete transmission and after one in which send
\* returned <= 0; and, the threads being scheduled fairly, a worker that waits
\* for pq_mutex eventually holds it.
C18_LockReleased ==
    \A w \in Workers :
        /\ (pq_mutex = w) ~> (pq_mutex # w)
        /\ WaitsPQ(w) ~> (pq_mutex = w \/ RunOver(w))

\* a hit transmission was cut short by a send that returned <= 0, the worker
\* still holds pq_mutex, and another worker waits for it
C18_Witness ==
    /\ server = "naive"
    /\ \E w, v \in Workers :
         /\ pc[w] = "log_hit_lock"
         /\ pq_mutex = w
         /\ total_sent[w] < resp[existing_response[w]].filesize
         /\ WaitsPQ(v)

\* C19: in server_cached every worker whose search hit eventually calls
\* put_down on the node and exits, whatever send returns during the
\* transmission, -1 included: the send loop always terminates.
C19_PinReleased ==
    \A w \in Workers :
        (server = "rc" /\ pc[w] = "send_hit") ~> (pc[w] = "idle")

\* positions of the miss path outside the enqueue critical section
MissPcs == {"fopen", "read", "lock_enqueue", "log_lock", "log"}

\* C20: in the naive server a worker whose search returned NULL does not hold
\* pq_mutex while it opens, reads and sends the file, nor after enqueue; on
\* the miss path pq_mutex is held for the enqueue call only.
C20_MissReleasesLock ==
    server = "naive" =>
        \A w \in Workers :
            /\ pc[w] \in MissPcs => pq_mutex # w
            /\ pq_mutex = w => pc[w] \in NaiveHitPcs \cup {"search", "enqueue"}

\* a worker reads its file on the miss path while another worker holds
\* pq_mutex for a cached transmission
C20_Witness ==
    /\ server = "naive"
    /\ \E w, v \in Workers :
         /\ pc[w] = "read"
         /\ pq_mutex = v
         /\ pc[v] = "send_hit"

\* the step of worker w in which enqueue(pq, new) is called
NVEnqueueStep(w) == server = "naive" /\ pc[w] = "enqueue" /\ pc'[w] = "log_lock"

\* the live nodes of nd whose entry has filename k
NodesOf(nd, rs, k) == {m \in LiveNodes(nd) : rs[nd[m].data].filename = k}

\* the slots of q whose entry has filename k
SlotsOf(q, rs, k) == {i \in 0..(q.size - 1) : rs[q.items[i]].filename = k}

\* the structs freed by the step
FreedNow == {a \in DOMAIN resp : resp'[a].freed /\ ~resp[a].freed}

\* what C21 says of the enqueue step of worker w
C21_EnqueueStep(w) ==
    LET k == new[w].filename
    IN  /\ RCEnqueueStep(w) =>
             LET retired == IF deck.size = MAX_CACHE_COUNT THEN {deck.tail} ELSE {}
             IN  /\ NodesOf(node', resp', k)
                      = (NodesOf(node, resp, k) \ retired) \cup {Len(node) + 1}
                 /\ \A m \in NodesOf(node, resp, k) :
                      /\ node'[m].data = node[m].data
                      /\ resp'[node[m].data] = resp[node[m].data]
        /\ NVEnqueueStep(w) =>
             /\ Cardinality(SlotsOf(pq', resp', k))
                  = Cardinality(SlotsOf(pq, resp, k)) + 1
                    - Cardinality({a \in FreedNow : resp[a].filename = k})
             /\ FreedNow # {} => pq.size = MAX
             /\ \A i \in SlotsOf(pq, resp, k) :
                  resp'[pq.items[i]].freed \/ Entry(pq, resp, i) \in Entries(pq', resp')

\* C21: in both engines enqueue of a key that is already cached adds a fresh
\* entry and leaves the entries stored under that key as they are, unless the
\* capacity eviction of the same call takes one; no entry is removed or
\* overwritten because its key is inserted again.
C21_NoDedup ==
    [][\A w \in Workers : C21_EnqueueStep(w)]_vars

\* two live nodes of the Deque hold the same filename
C21_Witness ==
    /\ server = "rc"
    /\ \E m, n \in LiveNodes(node) :
         m # n /\ resp[node[m].data].filename = resp[node[n].data].filename

\* two slots of the PriorityQueue hold the same filename
C21_WitnessNaive ==
    /\ server = "naive"
    /\ \E i, j \in 0..(pq.size - 1) :
         i # j /\ resp[pq.items[i]].filename = resp[pq.items[j]].filename

\* C22: whatever call of search or enqueue comes next on the queue, every slot
\* index it reads or writes lies in 0..size-1 and in 0..MAX-1; the eviction
\* scan runs only on a full queue and reads no slot at or beyond size.
C22_IndicesInRange ==
    server \in {"pq", "naive"} =>
        /\ \A k \in 1..(nseen + 1) :
             search_touched(pq, resp, k, Timespec(now, 0)) \subseteq 0..(pq.size - 1)
        /\ \A cpu \in 1..MaxCpuSeq :
             LET value == [filename |-> NFiles, response |-> FileBytes(NFiles),
                           filesize |-> Len(FileBytes(NFiles)),
                           access_time |-> Timespec(0, cpu)]
                 t == enqueue_touched(pq, Append(resp, StoredAt(value, Len(resp) + 1)),
                                      Len(resp) + 1)
             IN  /\ t.scan # {} <=> pq.size = MAX
                 /\ t.scan \subseteq 0..(pq.size - 1)
                 /\ t.store \in 0..(t.size - 1)
                 /\ t.sift \subseteq 0..(t.size - 1)
                 /\ t.size <= MAX

\* the eviction scan has run on a full queue and a later search has sifted an
\* entry up
C22_Witness ==
    /\ server = "pq"
    /\ pq.size = MAX
    /\ \E a \in DOMAIN resp : resp[a].freed
    /\ \E i \in 0..(MAX - 1) : resp[pq.items[i]].access_time.tv_sec = MaxClock

\* the (filename, payload) pairs stored in q
Pairs(q, rs) ==
    {<<rs[q.items[i]].filename, rs[q.items[i]].response>> : i \in 0..(q.size - 1)}

\* the step is a successful search(pq, k) that read the time t
PQHitStep(k, t) ==
    /\ server = "pq"
    /\ now' = now + 1
    /\ scan_pq(pq, resp, 0, k) # -1
    /\ resp' = search_pq(pq, resp, k, t).resp

\* what C23 says of a successful search for k at time t
C23_SearchStep(k, t) ==
    LET i == scan_pq(pq, resp, 0, k)
    IN  (/\ PQHitStep(k, t)
         /\ \A j \in 0..(pq.size - 1) :
              j # i => compare_timespec(resp[pq.items[j]].access_time, t) = -1)
        => /\ resp'[pq'.items[0]].filename = k
           /\ resp'[pq'.items[0]].response = resp[pq.items[i]].response
           /\ resp'[pq'.items[0]].filesize = resp[pq.items[i]].filesize
           /\ resp'[pq'.items[0]].access_time = t
           /\ Pairs(pq', resp') = Pairs(pq, resp)
           /\ \A j \in 0..(pq.size - 1) :
                Cardinality(SlotsOf(pq', resp', resp[pq.items[j]].filename))
                  = Cardinality(SlotsOf(pq, resp, resp[pq.items[j]].filename))
           /\ pq' = pq

\* C23: a successful search of PriorityQueue.c for key k stamps the matched
\* entry with the current time and sifts it up: when that time is strictly
\* greater than every other stored access_time, the entry with filename k and
\* its own payload is in slot 0 right after the search and carries the new
\* time, and the cached (filename, payload) pairs are the same as before.
C23_HitPromotes ==
    [][\A k \in 1..nseen : C23_SearchStep(k, Timespec(now, 0))]_vars

\* the one search so far has lifted the entry of the fourth or fifth file,
\* which never had a CPU time above its parent's, into slot 0
C23_Witness ==
    /\ server = "pq"
    /\ now = 2
    /\ pq.size >= 4
    /\ resp[pq.items[0]].access_time = Timespec(1, 0)
    /\ resp[pq.items[0]].filename >= 4
    /\ \A j \in 1..(pq.size - 1) :
         resp[pq.items[j]].access_time = Timespec(0, MaxCpuSeq)

\* the pcs at which a worker of the miss path holds its buffer new->response
MissLoopPcs == {"read", "send_miss", "lock_enqueue", "enqueue"}

\* what worker w has sent so far is the first sent[w] bytes of its buffer, and
\* once the loop is over, all of the file
BodyIsFile(w) ==
    pc[w] \in MissLoopPcs /\ new[w] # NoResp =>
        /\ sent[w] <= total_read[w]
        /\ sent[w] = Len(body[w])
        /\ body[w] = SubSeq(new[w].response, 1, sent[w])
        /\ pc[w] \in {"lock_enqueue", "enqueue"} =>
               body[w] = FileBytes(filename[w])

\* C24: on the miss path of both cached servers the body sent to the client is
\* the file's bytes as read into the buffer, every byte once and in order,
\* each send starting at the first byte not yet sent, under partial writes too
C24_BodyIsFile == \A w \in Workers : BodyIsFile(w)

\* the same statement for server_cached.c alone, where it holds
C24_BodyIsFileRC == server = "rc" => \A w \in Workers : BodyIsFile(w)

\* server_cached.c has sent a three-byte file read in two chunks, the first
\* chunk in two partial writes
C24_WitnessRC ==
    \E w \in Workers :
        /\ server = "rc"
        /\ pc[w] = "lock_enqueue"
        /\ Len(body[w]) = 3
        /\ body[w] = FileBytes(filename[w])

\* worker w is at a statement that writes to the statistics file: fprintf and
\* fflush in the threaded servers; in the process server the fwrite calls of
\* the discard loop, fprintf, and the fclose that writes out what is buffered
WritesStats(w) ==
    IF server = "proc"
    THEN \/ pc[w] \in {"fwrite", "fprintf"}
         \/ pc[w] = "fclose" /\ stdio_buf[w] # {}
    ELSE pc[w] \in {"log", "log_hit"}

\* worker w is between the lock and the unlock of the log lock
HoldsLogLock(w) ==
    IF server = "proc" THEN pc[w] = "fprintf" /\ stats_proc = 0
    ELSE mutex = w

LogExclusive ==
    /\ Cardinality({w \in Workers : WritesStats(w)}) <= 1
    /\ \A w \in Workers : WritesStats(w) => HoldsLogLock(w)
    /\ \A w \in Workers : ~WritesStats(w) => ~HoldsLogLock(w)

\* C25: in each of the four servers at most one worker at a time writes to
\* the statistics file, every write is done holding the log lock, and the
\* lock is released after the write
C25_LogExclusive == LogExclusive

\* the same statement for the three threaded servers, where it holds
C25_LogExclusiveThreaded == server # "proc" => LogExclusive

\* a thread writes its line while another one waits for the log lock
C25_WitnessThreaded ==
    \E w, v \in Workers :
        server = "thread" /\ pc[w] = "log" /\ mutex = w /\ pc[v] = "log_lock"

\* the cache lock of the running server, and the pcs at which a worker is in,
\* or about to call, pthread_mutex_lock on it and on the log lock
CacheLock == IF server = "rc" THEN deck_mutex ELSE pq_mutex
CacheLockPcs == {"lock_search", "lock_enqueue", "lock_put_down"}
LogLockPcs == {"log_lock", "log_hit_lock"}

\* worker w waits for a lock that worker v holds
WaitsFor(w, v) ==
    /\ w # v
    /\ \/ pc[w] \in CacheLockPcs /\ CacheLock = v
       \/ pc[w] \in LogLockPcs /\ mutex = v

\* the workers reached from the set S along WaitsFor in at most n steps
RECURSIVE WaitChain(_, _)
WaitChain(S, n) ==
    IF n = 0 THEN S
    ELSE WaitChain(S \cup {v \in Workers : \E u \in S : WaitsFor(u, v)}, n - 1)

\* no set of workers each of which waits for a lock held by another of them
NoWaitCycle ==
    \A w \in Workers :
        w \notin WaitChain({v \in Workers : WaitsFor(w, v)}, NWorkers)

\* C26: in both cached servers no worker asks for the cache lock while it
\* holds the log lock, a worker asks for a lock it already holds never, the
\* log lock is asked for under the cache lock in the naive server only, and
\* no set of workers wait for each other's locks
C26_NoDeadlock ==
    /\ \A w \in Workers : mutex = w => pc[w] \notin CacheLockPcs
    /\ \A w \in Workers : CacheLock = w => pc[w] \notin CacheLockPcs
    /\ \A w \in Workers : mutex = w => pc[w] \notin LogLockPcs
    /\ server = "rc" =>
          \A w \in Workers : deck_mutex = w => mutex # w /\ pc[w] \notin LogLockPcs
    /\ NoWaitCycle

\* the nesting of the naive server: a worker that holds pq_mutex waits for
\* the log lock, which a worker of the miss path holds
C26_Witness ==
    \E w, v \in Workers :
        /\ server = "naive"
        /\ pq_mutex = w /\ pc[w] = "log_hit_lock"
        /\ mutex = v /\ pc[v] = "log"
        /\ WaitsFor(w, v)

\* the pcs at which the next statement of the worker reads or writes the
\* cache: search, put_down and enqueue of server_cached.c; search, enqueue and
\* send_existing_http_response on a stored entry in server_cached_naive.c
AccessPcs ==
    IF server = "rc" THEN {"search", "put_down", "enqueue"}
    ELSE {"search", "send_hit", "log_hit_lock", "log_hit", "enqueue"}

\* a step that changes the cache is a step of the holder of the cache lock
WriteUnderLock ==
    deck' # deck \/ node' # node \/ pq' # pq \/ resp' # resp =>
        \E w \in Workers : CacheLock = w /\ pc[w] \in AccessPcs /\ pc'[w] # pc[w]

\* C27: the Deque and its nodes (server_cached.c), the PriorityQueue and its
\* stored entries (server_cached_naive.c) are read and written only by a
\* worker that holds the cache lock
C27_AccessUnderLock ==
    /\ [](\A w \in Workers : pc[w] \in AccessPcs => CacheLock = w)
    /\ [][WriteUnderLock]_vars

\* one worker is in put_down under deck_mutex while the other one, which has
\* pinned a node too, transmits without the lock
C27_Witness ==
    \E w, v \in Workers :
        /\ server = "rc"
        /\ pc[w] = "put_down" /\ deck_mutex = w
        /\ pc[v] = "send_hit" /\ existing_node[v] # NULL

\* the naive server transmits a stored entry under pq_mutex
C27_WitnessNaive ==
    \E w \in Workers :
        server = "naive" /\ pc[w] = "send_hit" /\ pq_mutex = w /\ total_sent[w] > 0

RECURSIVE Path(_, _, _)
\* the nodes met following next from curr, at most fuel of them
Path(nd, curr, fuel) ==
    IF curr = NULL \/ fuel = 0 THEN <<>>
    ELSE <<curr>> \o Path(nd, nd[curr].next, fuel - 1)

\* the Deque is empty, or a doubly linked list of deck->size live nodes from
\* head to tail
WellFormed(dk, nd) ==
    IF dk.size = 0 THEN dk.head = NULL /\ dk.tail = NULL
    ELSE LET p == Path(nd, dk.head, dk.size + 1)
         IN  /\ dk.head # NULL /\ dk.tail # NULL
             /\ nd[dk.head].prev = NULL
             /\ nd[dk.tail].next = NULL
             /\ Len(p) = dk.size
             /\ Cardinality({p[i] : i \in 1..Len(p)}) = dk.size
             /\ p[Len(p)] = dk.tail
             /\ \A i \in 1..Len(p) : nd[p[i]].valid = 1 /\ ~nd[p[i]].freed
             /\ \A i \in 1..(Len(p) - 1) : nd[nd[p[i]].next].prev = p[i]

\* C28: after any sequence of enqueue, search and put_down calls the Deque is
\* well formed (empty with head and tail NULL, or head->prev and tail->next
\* NULL, next leading from head through exactly deck->size distinct live,
\* unfreed nodes to tail, n->next->prev == n), and deck->size never decreases
C28_WellFormed ==
    /\ [](server = "rc" => WellFormed(deck, node))
    /\ [][deck'.size >= deck.size]_vars

\* a full list after an eviction: the retired node is off the list and the
\* node that became the tail is pinned
C28_Witness ==
    /\ server = "rc"
    /\ deck.size = MAX_CACHE_COUNT
    /\ Len(node) = MAX_CACHE_COUNT + 1
    /\ node[deck.tail].reference_count > 0
    /\ \E m \in DOMAIN node : node[m].valid = 0

\* the nodes that remove_tail has retired
Retired(nd) == {m \in DOMAIN nd : nd[m].valid = 0}

\* the nodes on the list
OnList(dk, nd) ==
    LET p == Path(nd, dk.head, Len(nd)) IN {p[i] : i \in 1..Len(p)}

\* a retired node stays retired and its reference_count does not grow, and a
\* search that hits returns a node that is not retired
RetiredStep ==
    /\ \A m \in Retired(node) :
          /\ node'[m].valid = 0
          /\ node'[m].reference_count <= node[m].reference_count
    /\ \A w \in Workers :
          pc[w] = "search" /\ pc'[w] = "send_hit" =>
              existing_node'[w] \notin Retired(node)

\* C29: a node retired by remove_tail (valid == 0) is not reachable from
\* deck->head, no later search returns it, and from its retirement on its
\* reference_count only decreases
C29_RetiredInvisible ==
    /\ [](server = "rc" => Retired(node) \cap OnList(deck, node) = {})
    /\ [][server = "rc" => RetiredStep]_vars

\* a retired node is still pinned, and the search for its file that a worker
\* is about to make will miss
C29_Witness ==
    /\ server = "rc"
    /\ \E m \in Retired(node) : \E w \in Workers :
          /\ node[m].reference_count > 0
          /\ pc[w] = "search"
          /\ filename[w] = resp[node[m].data].filename
          /\ search_deck(deck, node, resp, filename[w]).ret = NULL

\* the (filename, payload, filesize) held by the struct at address a, with the
\* name of its buffers
Triple(rs, a) == <<rs[a].buf, rs[a].filename, rs[a].response, rs[a].filesize>>

\* the triples cached in q
Triples(q, rs) == {Triple(rs, q.items[i]) : i \in 0..(q.size - 1)}

\* the structs free has been called on
Freed(rs) == {a \in DOMAIN rs : rs[a].freed}

\* the slots hold pairwise distinct live structs, every struct ever allocated
\* has buffers of its own, and each cached triple is what was read for its
\* filename
PQIntegrity(q, rs) ==
    /\ \A i \in 0..(q.size - 1) : q.items[i] \in DOMAIN rs \ Freed(rs)
    /\ \A i, j \in 0..(q.size - 1) : i # j => q.items[i] # q.items[j]
    /\ \A a, b \in DOMAIN rs : a # b => rs[a].buf # rs[b].buf
    /\ \A a \in DOMAIN rs :
          /\ rs[a].response = FileBytes(rs[a].filename)
          /\ rs[a].filesize = Len(rs[a].response)

\* what a call of search or enqueue does to the cached triples and to the heap
PQIntegrityStep ==
    /\ \A a \in Freed(resp) : resp'[a] = resp[a]
    /\ pq' = pq => /\ Triples(pq', resp') = Triples(pq, resp)
                   /\ FreedNow = {}
    /\ pq' # pq =>
          LET a == Len(resp')
              added == <<a, enq'[a].filename, enq'[a].response, enq'[a].filesize>>
          IN  IF pq.size < MAX
              THEN /\ Triples(pq', resp') = Triples(pq, resp) \cup {added}
                   /\ FreedNow = {}
              ELSE \E j \in scan_reads(pq) :
                     LET old == pq.items[j]
                     IN  /\ \A i \in scan_reads(pq) :
                               compare_timespec(resp[old].access_time,
                                                resp[pq.items[i]].access_time) # 1
                         /\ FreedNow = {old}
                         /\ resp'[old] = [resp[old] EXCEPT !.freed = TRUE]
                         /\ Triples(pq', resp') =
                               (Triples(pq, resp) \ {Triple(resp, old)}) \cup {added}

\* C30: swap exchanges whole structs, so after any sequence of search and
\* enqueue calls the slots hold pairwise distinct allocations, each with its
\* own (filename, payload, filesize); the cached triples change only in
\* enqueue, by the one added and at most one removed; an eviction frees the
\* triple with the selected access_time and nothing else; nothing is freed
\* twice and no slot refers to anything freed
C30_ContentIntegrity ==
    /\ [](server = "pq" => PQIntegrity(pq, resp))
    /\ [][server = "pq" => PQIntegrityStep]_vars

\* a full queue after an eviction in which two structs hold the buffers
\* first enqueued with another struct
C30_Witness ==
    /\ server = "pq"
    /\ pq.size = MAX
    /\ Freed(resp) # {}
    /\ \E i, j \in 0..(pq.size - 1) :
          /\ i # j
          /\ resp[pq.items[i]].buf # pq.items[i]
          /\ resp[pq.items[j]].buf # pq.items[j]
          /\ resp[pq.items[i]].filename # resp[pq.items[j]].filename

\* DerefsNew with the log block printing new->filename, as the log block of
\* the hit path prints http_response->filename
DerefsNew_log(w) == pc[w] \in {"fopen", "read", "send_miss", "enqueue", "log"}

\* the next statements of worker w dereference its pointer new: the mallocs
\* and field writes after fopen, the fread and send loop, and enqueue; the
\* lock calls and the log block (filename, sent) do not
DerefsNew(w) == pc[w] \in {"fopen", "read", "send_miss", "enqueue"}

\* the struct new points to has been freed
NewFreed(w) == inserted[w] # NULL /\ resp[inserted[w]].freed

\* C31: in both cached servers a worker of the miss path has read and sent
\* the whole payload of the HttpResponse it built before it calls enqueue,
\* and after enqueue has stored the struct it never dereferences it again; so
\* it never reads freed memory, also when another worker evicts the new
\* entry right after the cache lock was released
C31_InserterDone ==
    \A w \in Workers :
        /\ pc[w] \in {"lock_enqueue", "enqueue"} =>
              new[w] # NoResp /\ new[w].response = FileBytes(filename[w])
        /\ inserted[w] # NULL =>
              pc[w] \in {"log_lock", "log"} /\ new[w] = NoResp /\ ~DerefsNew(w)
        /\ DerefsNew(w) => ~NewFreed(w)

\* naive server: the struct the worker has enqueued was evicted and freed by
\* another worker while the inserter is in its log block
C31_Witness ==
    \E w \in Workers :
        /\ server = "naive"
        /\ pc[w] = "log"
        /\ mutex = w
        /\ NewFreed(w)

\* server_cached.c: the node of the struct the worker has enqueued was
\* retired while the inserter waits for the log lock
C31_WitnessRC ==
    \E w \in Workers : \E m \in DOMAIN node :
        /\ server = "rc"
        /\ pc[w] \in {"log_lock", "log"}
        /\ inserted[w] # NULL
        /\ node[m].data = inserted[w]
        /\ node[m].valid = 0

=============================================================================
